---- MODULE Spec2Model ----
(***************************************************************************)
(* Model of src/app.py: compute_results(components, onhand_df, cases_sold) *)
(* of the Shotcraft case-based inventory calculator, and the script's      *)
(* upload / enter-order-size / compute loop that calls it.                 *)
(*                                                                         *)
(* A cell of a table is a record [k, n, d]:                                *)
(*   k = "num"  the finite number n/d (d > 0)                              *)
(*   k = "txt"  a cell that pd.to_numeric cannot parse                     *)
(*   k = "nan"  NaN / an empty cell                                        *)
(*   k = "inf"  +infinity (a float inf, or the text "inf")                 *)
(*   k = "ninf" -infinity                                                  *)
(* Arithmetic on cells follows IEEE-754 as pandas/numpy apply it to NaN and *)
(* the infinities; a finite result is the exact rational (the rounding of  *)
(* a finite double is not modelled).                                       *)
(***************************************************************************)
EXTENDS Integers, Sequences, FiniteSets

VARIABLES components, onhand_df, cases_sold, result, prev

vars == <<components, onhand_df, cases_sold, result, prev>>

(* ------------------------------ bounds -------------------------------- *)

\* Largest number of rows of the component table and of the on-hand table.
MaxRows == 2
\* Per_Case cells range over -1..MaxRate (and the non-numeric cells).
MaxRate == 2
\* On_Hand cells range over -MaxQty..MaxQty (and the non-numeric cells).
MaxQty == 2
\* Order sizes entered range over -1..MaxCases.
MaxCases == 2

(* ------------------------------ cells --------------------------------- *)

Num(i) == [k |-> "num", n |-> i, d |-> 1]
Frac(a, b) == [k |-> "num", n |-> a, d |-> b]
Txt == [k |-> "txt", n |-> 0, d |-> 1]
NaN == [k |-> "nan", n |-> 0, d |-> 1]
Inf == [k |-> "inf", n |-> 0, d |-> 1]
NInf == [k |-> "ninf", n |-> 0, d |-> 1]

\* Names in alphabetical order (sort_values), and in the order in which the
\* component table lists them.
Alphabet == <<"A", "B", "C", "D">>
CompOrder == <<"B", "A", "D", "C">>
NameRank(s) == CHOOSE i \in 1..Len(Alphabet) : Alphabet[i] = s

(* ----------------------- float arithmetic (IEEE) ---------------------- *)

IsNaN(x) == x.k = "nan"
IsFinite(x) == x.k = "num"

\* -1, 0, 1: the sign of a non-NaN float.
Sign(x) ==
    IF x.k = "inf" THEN 1
    ELSE IF x.k = "ninf" THEN -1
    ELSE IF x.n > 0 THEN 1 ELSE IF x.n < 0 THEN -1 ELSE 0

\* a < b on floats: False whenever an operand is NaN.
FLt(a, b) ==
    IF IsNaN(a) \/ IsNaN(b) THEN FALSE
    ELSE IF a.k = "ninf" THEN b.k # "ninf"
    ELSE IF a.k = "inf" THEN FALSE
    ELSE IF b.k = "inf" THEN TRUE
    ELSE IF b.k = "ninf" THEN FALSE
    ELSE a.n * b.d < b.n * a.d

\* a == b and a <= b on floats, False whenever an operand is NaN: the program
\* makes neither comparison; the claims are stated with them.
FEq(a, b) ==
    IF IsNaN(a) \/ IsNaN(b) THEN FALSE
    ELSE IF IsFinite(a) /\ IsFinite(b) THEN a.n * b.d = b.n * a.d
    ELSE a.k = b.k

FLe(a, b) == FLt(a, b) \/ FEq(a, b)

\* a * b
FMul(a, b) ==
    IF IsNaN(a) \/ IsNaN(b) THEN NaN
    ELSE IF IsFinite(a) /\ IsFinite(b) THEN Frac(a.n * b.n, a.d * b.d)
    ELSE IF Sign(a) * Sign(b) = 0 THEN NaN
    ELSE IF Sign(a) * Sign(b) > 0 THEN Inf ELSE NInf

\* a - b
FSub(a, b) ==
    IF IsNaN(a) \/ IsNaN(b) THEN NaN
    ELSE IF IsFinite(a) /\ IsFinite(b) THEN Frac(a.n * b.d - b.n * a.d, a.d * b.d)
    ELSE IF IsFinite(a) THEN (IF b.k = "inf" THEN NInf ELSE Inf)
    ELSE IF IsFinite(b) THEN a
    ELSE IF a.k = b.k THEN NaN ELSE a

\* a / b for b > 0 (the only divisions the program makes)
FDiv(a, b) ==
    IF IsNaN(a) \/ IsNaN(b) THEN NaN
    ELSE IF IsFinite(a) /\ IsFinite(b) THEN Frac(a.n * b.d, a.d * b.n)
    ELSE IF IsFinite(a) THEN Num(0)
    ELSE IF IsFinite(b) THEN a
    ELSE NaN

(* ------------------------- pandas / math helpers ---------------------- *)

\* pd.to_numeric(errors="coerce") on one cell: what does not parse becomes NaN;
\* numbers, NaN and the infinities are kept.
to_numeric(x) == IF x.k = "txt" THEN NaN ELSE x

\* Series.fillna(v) on one cell.
fillna(x, v) == IF IsNaN(x) THEN v ELSE x

\* math.floor: an int for a finite float, OverflowError for an infinity,
\* ValueError for NaN.
math_floor_status(x) ==
    IF IsFinite(x) THEN "ok"
    ELSE IF IsNaN(x) THEN "ValueError" ELSE "OverflowError"

math_floor(x) == x.n \div x.d

\* Series.min(): the least element, NaN skipped; NaN when nothing is left.
SeriesMin(s) ==
    LET live == {i \in 1..Len(s) : ~IsNaN(s[i])}
    IN IF live = {} THEN NaN
       ELSE s[CHOOSE i \in live : \A j \in live : ~FLt(s[j], s[i])]

\* Mutant of idxmin: the last occurrence of the minimum instead of the first.
idxmin_last(s) ==
    LET live == {i \in 1..Len(s) : ~IsNaN(s[i])}
        least == {i \in live : \A j \in live : ~FLt(s[j], s[i])}
    IN CHOOSE i \in least : \A j \in least : i >= j

\* Series.idxmin(): the label of the first occurrence of the minimum, NaN skipped.
\* The frame's labels are 0..n-1 in row order; positions here are 1..n.
idxmin(s) ==
    LET live == {i \in 1..Len(s) : ~IsNaN(s[i])}
        least == {i \in live : \A j \in live : ~FLt(s[j], s[i])}
    IN CHOOSE i \in least : \A j \in least : i <= j

(* ------------------------------ tables -------------------------------- *)

\* The cells a Per_Case column and an On_Hand column may hold.
RateCells == {Num(i) : i \in -1..MaxRate} \cup {Txt, NaN, Inf}
QtyCells == {Num(i) : i \in -MaxQty..MaxQty} \cup {Txt, Inf, NInf}

\* The component tables load_excel returns: rows Component, Per_Case, UOM, the
\* k-th row naming CompOrder[k].
ComponentTables ==
    UNION {{[i \in 1..len |-> [Component |-> CompOrder[i], Per_Case |-> f[i], UOM |-> "ea"]]
              : f \in [1..len -> RateCells]} : len \in 0..MaxRows}

\* The on-hand tables load_excel returns: None (no INVENTORY sheet), or rows
\* Component, On_Hand in any order, names repeated or missing.
OnHandRows == [Component : {CompOrder[i] : i \in 1..MaxRows}, On_Hand : QtyCells]
OnHandTables ==
    {[none |-> TRUE, rows |-> <<>>]} \cup
    {[none |-> FALSE, rows |-> t] : t \in UNION {[1..len -> OnHandRows] : len \in 0..MaxRows}}

(* --------------------------- compute_results -------------------------- *)

\* df.merge(onhand_df, on="Component", how="left"): the rows of the left table in
\* order, each once per matching right row (in the right table's order), or once
\* with On_Hand = NaN when nothing matches.
RECURSIVE merge_left(_, _)
merge_left(left, right) ==
    IF left = <<>> THEN <<>>
    ELSE LET c == Head(left)
             hits == SelectSeq(right, LAMBDA h : h.Component = c.Component)
             row(q) == [Component |-> c.Component, UOM |-> c.UOM,
                        Per_Case |-> c.Per_Case, On_Hand |-> q]
             out == IF hits = <<>>
                    THEN <<row(NaN)>>
                    ELSE [i \in 1..Len(hits) |-> row(hits[i].On_Hand)]
         IN out \o merge_left(Tail(left), right)

\* Lines 69-74: the frame with an On_Hand column.
joined(comps, oh) ==
    IF oh.none
    THEN [i \in 1..Len(comps) |->
            [Component |-> comps[i].Component, UOM |-> comps[i].UOM,
             Per_Case |-> comps[i].Per_Case, On_Hand |-> Num(0)]]
    ELSE merge_left(comps, oh.rows)

\* Lines 77-78: "Ensure numeric".
ensure_numeric(x) == fillna(to_numeric(x), Num(0))

\* Mutant of RequiredOf: the rate is not scaled by the order size.
RequiredOf_Unscaled(per_case, n) == per_case

\* Line 80: Required = Per_Case * float(cases_sold)
RequiredOf(per_case, n) == FMul(per_case, Num(n))

\* Line 81: Remaining = On_Hand - Required
RemainingOf(on_hand, required) == FSub(on_hand, required)

\* Mutant of IsCandidate: a zero rate counts as a candidate (>= for >).
IsCandidate_Ge(r) == ~FLt(r.Per_Case, Num(0)) /\ ~IsNaN(r.Per_Case)

\* Line 84: the rows with Per_Case > 0
IsCandidate(r) == FLt(Num(0), r.Per_Case)

\* Line 86: On_Hand / Per_Case where Per_Case > 0, else inf
MaxCasesByItem(r) == IF FLt(Num(0), r.Per_Case) THEN FDiv(r.On_Hand, r.Per_Case) ELSE Inf

\* Mutant of IsShortage: a row that is used up exactly counts as short (<= for <).
IsShortage_Le(r) == FLe(r.Remaining, Num(0))

\* Line 101: the rows with Remaining < 0
IsShortage(r) == FLt(r.Remaining, Num(0))

\* Lines 76-81: the frame with its numeric and computed columns.
frame(comps, oh, n) ==
    LET j == joined(comps, oh)
    IN [i \in 1..Len(j) |->
          LET pc == ensure_numeric(j[i].Per_Case)
              h == ensure_numeric(j[i].On_Hand)
              req == RequiredOf(pc, n)
          IN [Component |-> j[i].Component, UOM |-> j[i].UOM, On_Hand |-> h,
              Per_Case |-> pc, Required |-> req, Remaining |-> RemainingOf(h, req)]]

\* sort_values("Component"): rows in alphabetical order of their names. Rows of
\* one name are kept here in their frame order; no claim reads the order of
\* such rows.
RECURSIVE insert_sorted(_, _)
insert_sorted(r, s) ==
    IF s = <<>> THEN <<r>>
    ELSE IF NameRank(r.Component) < NameRank(Head(s).Component) THEN <<r>> \o s
    ELSE <<Head(s)>> \o insert_sorted(r, Tail(s))

RECURSIVE sort_values(_)
sort_values(s) ==
    IF s = <<>> THEN <<>>
    ELSE insert_sorted(s[Len(s)], sort_values(SubSeq(s, 1, Len(s) - 1)))

\* What a call leaves when an exception leaves compute_results.
Raised(exc, n) ==
    [status |-> exc, n |-> n, display |-> <<>>, max_sellable |-> 0,
     bottleneck |-> <<>>, shortages |-> <<>>]

\* compute_results: status "ok" and (display, int(max_sellable), shortages), with
\* the local bottleneck (<<>> for None, <<b>> for the dict b), or the exception
\* math.floor raises.
compute_results(comps, oh, n) ==
    LET df == frame(comps, oh, n)
        ratios == [i \in 1..Len(df) |-> MaxCasesByItem(df[i])]
        candidates == SelectSeq(df, IsCandidate)
        shortages == SelectSeq(df, IsShortage)
        display == sort_values(df)
    IN IF candidates # <<>>
       THEN IF math_floor_status(SeriesMin(ratios)) # "ok"
            THEN Raised(math_floor_status(SeriesMin(ratios)), n)
            ELSE LET b == df[idxmin(ratios)]
                 IN [status |-> "ok", n |-> n, display |-> display,
                     max_sellable |-> math_floor(SeriesMin(ratios)),
                     bottleneck |-> <<[Item |-> b.Component, UOM |-> b.UOM,
                                       On_Hand |-> b.On_Hand, Per_Case |-> b.Per_Case,
                                       MaxCasesByItem |-> MaxCasesByItem(b)]>>,
                     shortages |-> shortages]
       ELSE [status |-> "ok", n |-> n, display |-> display, max_sellable |-> 0,
             bottleneck |-> <<>>, shortages |-> shortages]

(* ------------------------------ the script ---------------------------- *)

\* No call made yet.
NoResult == Raised("none", 0)

\* The tables load_excel returned (lines 45-66); no call made yet.
Init ==
    /\ components \in ComponentTables
    /\ onhand_df \in OnHandTables
    /\ cases_sold = 0
    /\ result = NoResult
    /\ prev = NoResult

\* compute_results is called on the loaded tables with order size n (line 132
\* is its one call in the script, with n >= 0 from the number input; the
\* function takes any number). prev keeps the call before it.
Compute(n) ==
    /\ cases_sold' = n
    /\ prev' = result
    /\ result' = compute_results(components, onhand_df, n)
    /\ UNCHANGED <<components, onhand_df>>

\* compute_results is called with the max sellable cases the last call returned
\* (d = 0), or one case more (d = 1), as the order size.
Reorder(d) ==
    /\ result.status = "ok"
    /\ Compute(result.max_sellable + d)

Next ==
    \/ \E n \in -1..MaxCases : Compute(n)
    \/ \E d \in {0, 1} : Reorder(d)

Spec == Init /\ [][Next]_vars

(* ------------------------- reading a result --------------------------- *)

Zero == Num(0)
Called == result.status # "none"
Returned == result.status = "ok"
Rows(res) == {res.display[i] : i \in 1..Len(res.display)}
Eligible(r) == FLt(Zero, r.Per_Case)
Ratio(r) == FDiv(r.On_Hand, r.Per_Case)
\* How often the row x occurs in the sequence s.
Count(s, x) == Cardinality({i \in 1..Len(s) : s[i] = x})
\* The position of a name in the component table, and the cells given for it.
Pos(name) == CHOOSE i \in 1..Len(components) : components[i].Component = name
RawRate(name) == components[Pos(name)].Per_Case
RawQtys(name) ==
    {onhand_df.rows[i].On_Hand : i \in {j \in 1..Len(onhand_df.rows) :
                                            onhand_df.rows[j].Component = name}}
\* The order size and every rate are non-negative, as the data model has them.
InDomain(res) == res.n >= 0 /\ \A r \in Rows(res) : ~FLt(r.Per_Case, Zero)
\* Every cell of the result is a finite number.
AllFinite(res) == \A r \in Rows(res) : IsFinite(r.Per_Case) /\ IsFinite(r.On_Hand)
\* floor(min over the eligible rows of On_Hand / Per_Case), from the rows: the
\* integer m with m * rate <= on_hand for every eligible row and
\* (m + 1) * rate > on_hand for one of them.
FloorMinRatio(res) ==
    CHOOSE m \in -(MaxQty + 1)..(MaxQty + 1) :
        /\ \A r \in Rows(res) : Eligible(r) => FLe(FMul(Num(m), r.Per_Case), r.On_Hand)
        /\ \E r \in Rows(res) : Eligible(r) /\ FLt(r.On_Hand, FMul(Num(m + 1), r.Per_Case))

(* ------------------------------- claims -------------------------------- *)

\* C1 (as claimed; refuted by the code): when a call returns and some row has
\* Per_Case > 0, all cells being finite numbers, max_sellable_cases is
\* floor(min on_hand / per_case_rate) over those rows, clamped to 0 from below.
C1_MaxSellableClamped ==
    (Returned /\ InDomain(result) /\ AllFinite(result)
        /\ \E r \in Rows(result) : Eligible(r)) =>
        result.max_sellable =
            (IF FloorMinRatio(result) < 0 THEN 0 ELSE FloorMinRatio(result))

\* C2 (as claimed; refuted by the code): when the order size of a call is the
\* max_sellable_cases m the call before returned (some rate being > 0, none
\* negative), no row with Per_Case > 0 has a negative Remaining; when it is
\* m + 1, at least one row has a negative Remaining.
C2_MaxIsLargestFeasible ==
    (prev.status = "ok" /\ Returned /\ InDomain(prev)
        /\ \E r \in Rows(prev) : Eligible(r)) =>
        /\ result.n = prev.max_sellable =>
              \A r \in Rows(result) : Eligible(r) => ~FLt(r.Remaining, Zero)
        /\ result.n = prev.max_sellable + 1 =>
              \E r \in Rows(result) : FLt(r.Remaining, Zero)

\* C2 and the finite cells: the statement of C2 holds of every call all of whose
\* cells are finite numbers.
C2_OnFiniteCells == AllFinite(prev) => C2_MaxIsLargestFeasible

C4_JoinComplete ==
    (Returned /\ InDomain(result)) =>
        /\ Len(result.display) = Len(components)
        /\ \A i \in 1..Len(components) :
              /\ Cardinality({j \in 1..Len(result.display) :
                     result.display[j].Component = components[i].Component}) = 1
              /\ RawQtys(components[i].Component) = {} =>
                     \A r \in Rows(result) :
                         r.Component = components[i].Component => FEq(r.On_Hand, Zero)

\* C5: when every component's rate is 0 (also when there is no component), a call
\* returns without an exception, max_sellable_cases = 0 and there is no
\* bottleneck, whatever the order size and the on-hand cells.
C5_NoRateData ==
    (Called /\ \A i \in 1..Len(components) :
                   FEq(ensure_numeric(components[i].Per_Case), Zero)) =>
        /\ result.status = "ok"
        /\ result.max_sellable = 0
        /\ result.bottleneck = <<>>

\* C5's case: two components with rate 0, one of them by coercion of a text cell,
\* an infinite on-hand quantity, and a positive order size.
C5_Witness ==
    /\ Called /\ result.n > 0
    /\ Len(components) = 2
    /\ \A i \in 1..Len(components) : FEq(ensure_numeric(components[i].Per_Case), Zero)
    /\ \E i \in 1..Len(components) : components[i].Per_Case = Txt
    /\ \E r \in Rows(result) : r.On_Hand = Inf

\* C6: in a call that returns, every row's Remaining is
\* On_Hand - Per_Case * order size, and the shortages are exactly the rows for
\* which that is negative, each as often as it is a row.
C6_ShortagesExact ==
    Returned =>
        LET rem(x) == FSub(x.On_Hand, FMul(x.Per_Case, Num(cases_sold)))
        IN /\ \A x \in Rows(result) : x.Remaining = rem(x)
           /\ \A x \in Rows(result) \cup
                       {result.shortages[i] : i \in 1..Len(result.shortages)} :
                 Count(result.shortages, x) =
                     (IF FLt(rem(x), Zero) THEN Count(result.display, x) ELSE 0)

\* C6's case: a row with rate 0 and a negative on-hand quantity is short, and a
\* row used up exactly (Remaining = 0, an order of 1 or more) is not.
C6_Witness ==
    /\ Returned /\ result.n >= 1
    /\ Len(result.shortages) = 1
    /\ FEq(result.shortages[1].Per_Case, Zero)
    /\ \E r \in Rows(result) : Eligible(r) /\ FEq(r.Remaining, Zero)

\* C7 (as claimed; refuted by the code): a call with a negative order size is
\* rejected with a validation error, or returns rows whose Required is 0.
C7_NegativeOrderClamped ==
    (Called /\ result.n < 0) =>
        \/ result.status = "ValidationError"
        \/ /\ Returned
           /\ \A r \in Rows(result) : ~FLt(r.Per_Case, Zero) => FEq(r.Required, Zero)

\* C8 (as claimed; refuted by the code): of two calls that return, the second
\* with the larger order size, every row's Remaining in the second is at most
\* the same row's Remaining in the first (no rate and no order size being
\* negative).
C8_Monotone ==
    (prev.status = "ok" /\ Returned /\ InDomain(prev) /\ prev.n < result.n) =>
        \A i \in 1..Len(result.display) :
            FLe(result.display[i].Remaining, prev.display[i].Remaining)

\* C8 and the finite rates: the statement of C8 holds of every call all of whose
\* rates are finite numbers.
C8_OnFiniteRates == (\A r \in Rows(prev) : IsFinite(r.Per_Case)) => C8_Monotone

\* C9 (as claimed; refuted by the code): no call (with an order size and rates
\* that are not negative) raises, a row whose rate cell is
\* not a finite number carries Per_Case = 0 and Required = 0 and is not the
\* bottleneck, and a row whose on-hand cells are not finite numbers carries
\* On_Hand = 0.
C9_CoercedToZero ==
    (Called /\ result.n >= 0
        /\ \A i \in 1..Len(components) : ~FLt(components[i].Per_Case, Zero)) =>
        /\ result.status = "ok"
        /\ \A r \in Rows(result) :
              /\ ~IsFinite(RawRate(r.Component)) =>
                    /\ FEq(r.Per_Case, Zero) /\ FEq(r.Required, Zero)
                    /\ FEq(r.Remaining, r.On_Hand)
                    /\ \A b \in {result.bottleneck[i] : i \in 1..Len(result.bottleneck)} :
                          b.Item # r.Component
              /\ (\A q \in RawQtys(r.Component) : ~IsFinite(q)) => FEq(r.On_Hand, Zero)

\* C10: when a call returns and some row has Per_Case > 0, there is a bottleneck;
\* it is a row with Per_Case > 0, no row with Per_Case > 0 has a smaller
\* On_Hand / Per_Case, and no component listed before it in the component table
\* has a row with Per_Case > 0 and the same On_Hand / Per_Case.
C10_BottleneckFirstMin ==
    (Returned /\ \E r \in Rows(result) : Eligible(r)) =>
        /\ Len(result.bottleneck) = 1
        /\ LET b == result.bottleneck[1]
           IN /\ Eligible(b)
              /\ \E r \in Rows(result) :
                    r.Component = b.Item /\ r.On_Hand = b.On_Hand /\ r.Per_Case = b.Per_Case
              /\ b.MaxCasesByItem = Ratio(b)
              /\ \A r \in Rows(result) : Eligible(r) =>
                    /\ ~FLt(Ratio(r), Ratio(b))
                    /\ Pos(r.Component) < Pos(b.Item) => ~FEq(Ratio(r), Ratio(b))

\* C10's case: two components with different rates > 0 tie on the ratio (the
\* on-hand table lists them in the other order), and the bottleneck is the one
\* the component table lists first, which sorts last.
C10_Witness ==
    /\ Returned /\ Len(components) = 2 /\ ~onhand_df.none
    /\ Len(onhand_df.rows) = 2
    /\ onhand_df.rows[1].Component = components[2].Component
    /\ onhand_df.rows[2].Component = components[1].Component
    /\ \A r \in Rows(result) : Eligible(r) /\ FLt(Zero, r.On_Hand)
    /\ result.display[1].Per_Case # result.display[2].Per_Case
    /\ FEq(Ratio(result.display[1]), Ratio(result.display[2]))
    /\ Len(result.bottleneck) = 1
    /\ result.bottleneck[1].Item = components[1].Component
    /\ result.display[2].Component = components[1].Component

====
